---- MODULE Spec2Model ----
(***************************************************************************)
(* vrchat-light-sync (src/src/main.rs): poll a Home Assistant bulb,        *)
(* normalise hue and brightness with translate, and forward the state to   *)
(* VRChat over OSC whenever it changed, at a bounded loop speed.           *)
(*                                                                         *)
(* f32 values are modelled as exact extended rationals [n, d] (d = 0 for   *)
(* the infinities and NaN); rounding of f32 is not modelled.  Time is      *)
(* counted in ticks; only the blocking calls (HTTP fetch, OSC send,        *)
(* thread::sleep) take time.                                               *)
(***************************************************************************)
EXTENDS Integers, Sequences, FiniteSets

\* ------------------------------------------------------------ bounds
\* ticks of the model clock per second
TicksPerSecond == 2
\* largest configured max_updates_per_second
MaxRate == 2
\* longest duration, in ticks, of one fetch or one OSC send
MaxDur == 1
\* longest time thread::sleep may oversleep
MaxOversleep == 1
\* the arguments of translate applied on its own range over -1..MaxArg
MaxArg == 2

\* ------------------------------------------------------------ f32
Abs(x) == IF x < 0 THEN -x ELSE x

Sign(x) == IF x < 0 THEN -1 ELSE IF x > 0 THEN 1 ELSE 0

RECURSIVE GCD(_, _)
GCD(a, b) == IF b = 0 THEN a ELSE GCD(b, a % b)

\* the value n/d in lowest terms, d > 0
Norm(n, d) ==
    LET g == GCD(Abs(n), Abs(d))
    IN  [n |-> Sign(d) * (n \div g), d |-> Abs(d) \div g]

FromInt(i) == [n |-> i, d |-> 1]
Zero == FromInt(0)
One == FromInt(1)
NaN == [n |-> 0, d |-> 0]
Inf(s) == [n |-> s, d |-> 0]

IsNaN(x) == x.d = 0 /\ x.n = 0
IsInf(x) == x.d = 0 /\ x.n # 0
IsFinite(x) == x.d # 0

FNeg(x) == [n |-> -x.n, d |-> x.d]

FAdd(a, b) ==
    IF IsNaN(a) \/ IsNaN(b) THEN NaN
    ELSE IF IsInf(a) /\ IsInf(b) THEN (IF a.n = b.n THEN a ELSE NaN)
    ELSE IF IsInf(a) THEN a
    ELSE IF IsInf(b) THEN b
    ELSE Norm(a.n * b.d + b.n * a.d, a.d * b.d)

FSub(a, b) == FAdd(a, FNeg(b))

FMul(a, b) ==
    IF IsNaN(a) \/ IsNaN(b) THEN NaN
    ELSE IF IsInf(a) \/ IsInf(b)
         THEN (IF a.n = 0 \/ b.n = 0 THEN NaN ELSE Inf(Sign(a.n) * Sign(b.n)))
    ELSE Norm(a.n * b.n, a.d * b.d)

FDiv(a, b) ==
    IF IsNaN(a) \/ IsNaN(b) THEN NaN
    ELSE IF IsInf(a) /\ IsInf(b) THEN NaN
    ELSE IF IsInf(a) THEN Inf(Sign(a.n) * (IF b.n < 0 THEN -1 ELSE 1))
    ELSE IF IsInf(b) THEN Zero
    ELSE IF b.n = 0 THEN (IF a.n = 0 THEN NaN ELSE Inf(Sign(a.n)))
    ELSE Norm(a.n * b.d, a.d * b.n)

\* IEEE comparisons: every comparison with NaN is false
FEq(a, b) == ~IsNaN(a) /\ ~IsNaN(b) /\ a = b

FLe(a, b) ==
    /\ ~IsNaN(a) /\ ~IsNaN(b)
    /\ IF IsInf(a) THEN (a.n < 0 \/ a = b)
       ELSE IF IsInf(b) THEN b.n > 0
       ELSE a.n * b.d <= b.n * a.d

\* ------------------------------------------------------------ translate
translate_noscale(value, prev_start, prev_end, new_start, new_end) ==
    FAdd(new_start, FSub(value, prev_start))

\* spans taken as the interval ends, forgetting the interval starts
translate_span_end(value, prev_start, prev_end, new_start, new_end) ==
    LET scaled_value == FDiv(FSub(value, prev_start), prev_end)
    IN  FAdd(new_start, FMul(scaled_value, new_end))

translate(value, prev_start, prev_end, new_start, new_end) ==
    LET prev_span == FSub(prev_end, prev_start)
        new_span == FSub(new_end, new_start)
        scaled_value == FDiv(FSub(value, prev_start), prev_span)
    IN  FAdd(new_start, FMul(scaled_value, new_span))

\* ------------------------------------------------------------ BulbState
BulbState(on, hue, brightness) == [on |-> on, hue |-> hue, brightness |-> brightness]

\* placeholder of `state` and `old_state` before their let-bindings run
Unbound == BulbState(FALSE, Zero, Zero)

\* a comparison that forgets the hue field
BulbStateEq_no_hue(a, b) ==
    /\ a.on = b.on
    /\ FEq(a.brightness, b.brightness)

\* #[derive(PartialEq)]: field-wise ==, f32 fields by IEEE equality
BulbStateEq(a, b) ==
    /\ a.on = b.on
    /\ FEq(a.hue, b.hue)
    /\ FEq(a.brightness, b.brightness)

\* ------------------------------------------------------------ the backend
\* what a serde_json::Value that is not a Number can be ("absent": indexing
\* a missing key or a non-container yields Value::Null)
NonNumberKinds == {"absent", "null", "string", "bool", "array", "object"}
\* raw numbers inside, at the end of and outside the native ranges [0, 360]
\* and [0, 255]
RawHues == {180, 360}
RawBrightnesses == {255, 510}
JValues(kinds, nums) ==
    {[kind |-> k, num |-> 0] : k \in kinds}
        \cup {[kind |-> "number", num |-> n] : n \in nums}
\* json["state"]: the string it holds, or "absent"
StatusValues == {"on", "off", "absent"}
Jsons == [state : StatusValues, hs_color0 : JValues(NonNumberKinds, RawHues),
          brightness : JValues(NonNumberKinds, RawBrightnesses)]
NoJson == [state |-> "absent", hs_color0 |-> [kind |-> "none", num |-> 0],
           brightness |-> [kind |-> "none", num |-> 0]]
\* outcome of the HTTP exchange: send() fails, text() fails, the body is not
\* JSON, or the body parses to json
Responses ==
    {[kind |-> k, json |-> NoJson] : k \in {"send_err", "text_err", "malformed"}}
        \cup {[kind |-> "json", json |-> j] : j \in Jsons}

\* match on a Value: Number(val) => val.as_f64() as f32, _ => 0.0
NumberOrZero(v) == IF v.kind = "number" THEN FromInt(v.num) ELSE Zero

Result(tag, val) == [tag |-> tag, val |-> val]

\* an adapter that rejects a field that is present but not a number
get_home_assistant_state_strict(resp) ==
    IF resp.kind \in {"send_err", "text_err"} THEN Result("Err", Unbound)
    ELSE IF resp.kind = "malformed" THEN Result("panic", Unbound)
    ELSE IF \/ resp.json.hs_color0.kind \notin {"number", "absent"}
            \/ resp.json.brightness.kind \notin {"number", "absent"}
         THEN Result("panic", Unbound)
    ELSE Result("Ok", BulbState(resp.json.state = "on",
             translate(NumberOrZero(resp.json.hs_color0), Zero, FromInt(360), Zero, One),
             translate(NumberOrZero(resp.json.brightness), Zero, FromInt(255), Zero, One)))

\* an adapter that compares the status without regard to case
get_home_assistant_state_any_case(resp) ==
    IF resp.kind \in {"send_err", "text_err"} THEN Result("Err", Unbound)
    ELSE IF resp.kind = "malformed" THEN Result("panic", Unbound)
    ELSE Result("Ok", BulbState(resp.json.state \in {"on", "ON"},
             translate(NumberOrZero(resp.json.hs_color0), Zero, FromInt(360), Zero, One),
             translate(NumberOrZero(resp.json.brightness), Zero, FromInt(255), Zero, One)))

get_home_assistant_state(resp) ==
    IF resp.kind \in {"send_err", "text_err"} THEN Result("Err", Unbound)
    ELSE IF resp.kind = "malformed" THEN Result("panic", Unbound)
    ELSE LET parsed == resp.json
             on == parsed.state = "on"
             hue == NumberOrZero(parsed.hs_color0)
             brightness == NumberOrZero(parsed.brightness)
         IN  Result("Ok", BulbState(on,
                 translate(hue, Zero, FromInt(360), Zero, One),
                 translate(brightness, Zero, FromInt(255), Zero, One)))

get_bulb_state(resp) ==
    LET res == get_home_assistant_state(resp)
    IN  IF res.tag = "Ok" THEN res ELSE Result("panic", Unbound)

\* ------------------------------------------------------------ state
VARIABLES
    max_updates_per_second, \* Config.max_updates_per_second
    pc,                     \* position of main
    upc,                    \* position inside update_vrchat ("idle": not in it)
    state,                  \* main: state
    old_state,              \* main: old_state
    start_age,              \* start.elapsed(): ticks since `start` was taken
    elapsed,                \* main: elapsed (line 137)
    \* history variables
    fetch_result,           \* outcome of the latest fetch
    json,                   \* body parsed by the latest fetch, until `start` is taken
    raw_in_range,           \* every raw number so far was within its native range
    sent,                   \* sends of the update_vrchat call in progress or just returned
    iter,                   \* loop iterations started: 0, 1, 2 (two or more)
    dispatches,             \* update_vrchat calls made: 0, 1, 2 (two or more)
    since_dispatch,         \* ticks since update_vrchat was last entered (saturating)
    dispatch_gap,           \* since_dispatch as it was when update_vrchat was entered
    sleep_arg,              \* Duration passed to thread::sleep this iteration, -1: none
    slept,                  \* ticks thread::sleep actually took this iteration
    fetch_dur,              \* ticks the latest fetch took
    cycle_len,              \* ticks between the previous `start` and this one
    last_dispatched,        \* the state passed to the latest update_vrchat call
    stale,                  \* a send of the latest update_vrchat call failed (kept until
                            \* the elapsed step of the next iteration without a dispatch)
    tr                      \* arguments and results of translate applied on its own

vars == <<max_updates_per_second, pc, upc, state, old_state, start_age, elapsed,
          fetch_result, json, raw_in_range, sent, iter, dispatches,
          since_dispatch, dispatch_gap, sleep_arg, slept, fetch_dur, cycle_len,
          last_dispatched, stale, tr>>

\* no translate call under study
NoCall == [value |-> 0, prev_start |-> 0, prev_end |-> 0, new_start |-> 0,
           new_end |-> 0, step |-> "none", result |-> Zero, back |-> Zero]

\* max_loop_speed = Duration::from_secs_f32(1.0 / max_updates_per_second), in ticks
max_loop_speed == TicksPerSecond \div max_updates_per_second

\* saturation point of since_dispatch: no period is longer
ClockCap == TicksPerSecond + 1

Min(a, b) == IF a < b THEN a ELSE b
\* the history counters distinguish none, one, and two or more
Bump(n) == IF n < 2 THEN n + 1 ELSE n

\* d ticks pass
Advance(d) ==
    /\ start_age' = (IF pc \in {"init_fetch", "init_clone", "init_update"}
                     THEN 0 ELSE start_age + d)
    /\ since_dispatch' = Min(since_dispatch + d, ClockCap)

Init ==
    /\ max_updates_per_second \in 1..MaxRate
    /\ pc = "init_fetch"
    /\ upc = "idle"
    /\ state = Unbound
    /\ old_state = Unbound
    /\ start_age = 0
    /\ elapsed = 0
    /\ fetch_result = "none"
    /\ json = NoJson
    /\ raw_in_range = TRUE
    /\ sent = <<>>
    /\ iter = 0
    /\ dispatches = 0
    /\ since_dispatch = ClockCap
    /\ dispatch_gap = ClockCap
    /\ sleep_arg = -1
    /\ slept = 0
    /\ fetch_dur = 0
    /\ cycle_len = 0
    /\ last_dispatched = Unbound
    /\ stale = FALSE
    /\ tr = NoCall

InRange(v, lo, hi) == v.kind = "number" => (lo <= v.num /\ v.num <= hi)

\* a fetch that is tried again when it fails
GetBulbState_retry(next) ==
    \E resp \in Responses, d \in 0..MaxDur :
        LET res == get_bulb_state(resp)
        IN  /\ Advance(d)
            /\ fetch_dur' = d
            /\ fetch_result' = resp.kind
            /\ json' = resp.json
            /\ raw_in_range' = (raw_in_range /\ (resp.kind = "json" =>
                    /\ InRange(resp.json.hs_color0, 0, 360)
                    /\ InRange(resp.json.brightness, 0, 255)))
            /\ IF res.tag = "Ok"
               THEN state' = res.val /\ pc' = next
               ELSE state' = state /\ pc' = pc
            /\ UNCHANGED <<tr, last_dispatched, stale,
                           max_updates_per_second, upc, old_state, elapsed, sent,
                           iter, dispatches, dispatch_gap, sleep_arg, slept, cycle_len>>

\* get_bulb_state on every answer of the backend, tabulated
BulbStates == {[resp |-> r, res |-> get_bulb_state(r)] : r \in Responses}

BulbStateOf(resp) == (CHOOSE o \in BulbStates : o.resp = resp).res

\* state = get_bulb_state(&config), lines 126 and 144, with the answer of the
\* backend drawn from responses; the panic of get_bulb_state (line 96) or of
\* the expect at line 68 ends the process
GetBulbStateFrom(responses, next) ==
    \E resp \in responses, d \in 0..MaxDur :
        LET res == BulbStateOf(resp)
        IN  /\ Advance(d)
            /\ fetch_dur' = d
            /\ fetch_result' = resp.kind
            /\ json' = resp.json
            /\ raw_in_range' = (raw_in_range /\ (resp.kind = "json" =>
                    /\ InRange(resp.json.hs_color0, 0, 360)
                    /\ InRange(resp.json.brightness, 0, 255)))
            /\ IF res.tag = "Ok"
               THEN state' = res.val /\ pc' = next
               ELSE state' = state /\ pc' = "panicked"
            /\ UNCHANGED <<tr, last_dispatched, stale,
                           max_updates_per_second, upc, old_state, elapsed, sent,
                           iter, dispatches, dispatch_gap, sleep_arg, slept, cycle_len>>

GetBulbState(next) == GetBulbStateFrom(Responses, next)

\* line 126
InitFetch == pc = "init_fetch" /\ GetBulbState("init_clone")

\* old_state left at a default value instead of a copy of state
InitClone_default ==
    /\ pc = "init_clone"
    /\ old_state' = Unbound
    /\ pc' = "init_update"
    /\ UNCHANGED <<tr, last_dispatched, stale,
                   max_updates_per_second, upc, state, start_age, elapsed,
                   fetch_result, json, raw_in_range, sent, iter, dispatches,
                   since_dispatch, dispatch_gap, sleep_arg, slept, fetch_dur, cycle_len>>

\* line 127: let mut old_state = state.clone()
InitClone ==
    /\ pc = "init_clone"
    /\ old_state' = state
    /\ pc' = "init_update"
    /\ UNCHANGED <<tr, last_dispatched, stale,
                   max_updates_per_second, upc, state, start_age, elapsed,
                   fetch_result, json, raw_in_range, sent, iter, dispatches,
                   since_dispatch, dispatch_gap, sleep_arg, slept, fetch_dur, cycle_len>>

\* entering update_vrchat(&sender, &state)
CallUpdate(site) ==
    /\ pc' = site
    /\ upc' = "on"
    /\ sent' = <<>>
    /\ dispatches' = Bump(dispatches)
    /\ dispatch_gap' = since_dispatch
    /\ since_dispatch' = 0
    /\ last_dispatched' = state
    /\ stale' = FALSE

\* line 128: update_vrchat(&sender, &state)
InitUpdate ==
    /\ pc = "init_update" /\ upc = "idle"
    /\ CallUpdate("init_update")
    /\ UNCHANGED <<tr,
                   max_updates_per_second, state, old_state, start_age, elapsed,
                   fetch_result, json, raw_in_range, iter, sleep_arg, slept,
                   fetch_dur, cycle_len>>

\* a send whose error is propagated (unwrap instead of ok)
Send_unwrap(addr, val, next) ==
    \E ok \in BOOLEAN, d \in 0..MaxDur :
        /\ Advance(d)
        /\ sent' = Append(sent, [addr |-> addr, val |-> val, ok |-> ok])
        /\ upc' = (IF ok THEN next ELSE "idle")
        /\ pc' = (IF ok THEN pc ELSE "panicked")
        /\ dispatch_gap' = ClockCap
        /\ stale' = (stale \/ ~ok)
        /\ UNCHANGED <<tr, last_dispatched,
                       max_updates_per_second, state, old_state, elapsed,
                       fetch_result, json, raw_in_range, iter, dispatches,
                       sleep_arg, slept, fetch_dur, cycle_len>>

\* one sender.send((addr, vec![val])).ok() of update_vrchat: the Result is
\* discarded, whatever it is
Send(addr, val, next) ==
    \E ok \in BOOLEAN, d \in 0..MaxDur :
        /\ Advance(d)
        /\ sent' = Append(sent, [addr |-> addr, val |-> val, ok |-> ok])
        /\ upc' = next
        /\ dispatch_gap' = ClockCap
        /\ stale' = (stale \/ ~ok)
        /\ UNCHANGED <<tr, last_dispatched,
                       max_updates_per_second, pc, state, old_state, elapsed,
                       fetch_result, json, raw_in_range, iter, dispatches,
                       sleep_arg, slept, fetch_dur, cycle_len>>

\* lines 102-104
SendOn == upc = "on" /\ Send("/avatar/parameters/on", state.on, "Color")

\* lines 105-107
SendColor == upc = "Color" /\ Send("/avatar/parameters/Color", state.hue, "brightness")

\* lines 108-113
SendBrightness ==
    upc = "brightness" /\ Send("/avatar/parameters/brightness", state.brightness, "println")

\* line 114, and the return to the caller (line 128 or line 134)
UpdateReturn ==
    /\ upc = "println"
    /\ upc' = "idle"
    /\ pc' = (IF pc = "init_update" THEN "start" ELSE "elapsed")
    /\ UNCHANGED <<tr, last_dispatched, stale,
                   max_updates_per_second, state, old_state, start_age, elapsed,
                   fetch_result, json, raw_in_range, sent, iter, dispatches,
                   since_dispatch, dispatch_gap, sleep_arg, slept, fetch_dur, cycle_len>>

\* line 131: let start = time::Instant::now()
Start ==
    /\ pc = "start"
    /\ start_age' = 0
    /\ cycle_len' = (IF iter >= 1 THEN start_age ELSE 0)
    /\ iter' = Bump(iter)
    /\ pc' = "compare"
    /\ json' = NoJson
    /\ sent' = <<>>
    /\ UNCHANGED <<tr, last_dispatched, stale,
                   max_updates_per_second, upc, state, old_state, elapsed,
                   fetch_result, raw_in_range, dispatches,
                   since_dispatch, dispatch_gap, sleep_arg, slept, fetch_dur>>

\* lines 133-135: if state != old_state { update_vrchat(&sender, &state); }
\* The history of the previous iteration is dropped here.
Compare ==
    /\ pc = "compare"
    /\ IF ~BulbStateEq(state, old_state)
       THEN CallUpdate("update")
       ELSE /\ pc' = "elapsed"
            /\ sent' = <<>>
            /\ UNCHANGED <<upc, dispatches, since_dispatch, dispatch_gap,
                           last_dispatched, stale>>
    /\ elapsed' = 0
    /\ sleep_arg' = -1
    /\ slept' = 0
    /\ fetch_dur' = 0
    /\ cycle_len' = 0
    /\ UNCHANGED <<tr,
                   max_updates_per_second, state, old_state, start_age,
                   fetch_result, json, raw_in_range, iter>>

\* elapsed taken as zero: the time of the dispatch is not measured
Elapsed_stale ==
    /\ pc = "elapsed"
    /\ elapsed' = 0
    /\ pc' = "wait"
    /\ sent' = <<>>
    /\ stale' = (stale /\ sent # <<>>)
    /\ UNCHANGED <<tr, last_dispatched,
                   max_updates_per_second, upc, state, old_state, start_age,
                   fetch_result, json, raw_in_range, iter, dispatches,
                   since_dispatch, dispatch_gap, sleep_arg, slept, fetch_dur, cycle_len>>

\* line 137: let elapsed = start.elapsed()
Elapsed ==
    /\ pc = "elapsed"
    /\ elapsed' = start_age
    /\ pc' = "wait"
    /\ sent' = <<>>
    /\ stale' = (stale /\ sent # <<>>)
    /\ UNCHANGED <<tr, last_dispatched,
                   max_updates_per_second, upc, state, old_state, start_age,
                   fetch_result, json, raw_in_range, iter, dispatches,
                   since_dispatch, dispatch_gap, sleep_arg, slept, fetch_dur, cycle_len>>

\* a sleep of the whole period, whatever time the cycle already took
Sleep_whole_period ==
    /\ pc = "wait"
    /\ elapsed < max_loop_speed
    /\ \E over \in 0..MaxOversleep :
        /\ sleep_arg' = max_loop_speed
        /\ slept' = max_loop_speed + over
        /\ Advance(max_loop_speed + over)
    /\ pc' = "print"
    /\ UNCHANGED <<tr, last_dispatched, stale,
                   max_updates_per_second, upc, state, old_state, elapsed,
                   fetch_result, json, raw_in_range, sent, iter, dispatches,
                   dispatch_gap, fetch_dur, cycle_len>>

\* lines 138-140, elapsed < max_loop_speed: thread::sleep(max_loop_speed - elapsed),
\* which sleeps at least the duration asked for
Sleep ==
    /\ pc = "wait"
    /\ elapsed < max_loop_speed
    /\ \E over \in 0..MaxOversleep :
        /\ sleep_arg' = max_loop_speed - elapsed
        /\ slept' = (max_loop_speed - elapsed) + over
        /\ Advance((max_loop_speed - elapsed) + over)
    /\ pc' = "print"
    /\ UNCHANGED <<tr, last_dispatched, stale,
                   max_updates_per_second, upc, state, old_state, elapsed,
                   fetch_result, json, raw_in_range, sent, iter, dispatches,
                   dispatch_gap, fetch_dur, cycle_len>>

\* a loop that never waits
SkipSleep_always ==
    /\ pc = "wait"
    /\ pc' = "print"
    /\ UNCHANGED <<tr, last_dispatched, stale,
                   max_updates_per_second, upc, state, old_state, start_age, elapsed,
                   fetch_result, json, raw_in_range, sent, iter, dispatches,
                   since_dispatch, dispatch_gap, sleep_arg, slept, fetch_dur, cycle_len>>

\* lines 138-140, elapsed >= max_loop_speed: the if is not taken
SkipSleep ==
    /\ pc = "wait"
    /\ ~(elapsed < max_loop_speed)
    /\ pc' = "print"
    /\ UNCHANGED <<tr, last_dispatched, stale,
                   max_updates_per_second, upc, state, old_state, start_age, elapsed,
                   fetch_result, json, raw_in_range, sent, iter, dispatches,
                   since_dispatch, dispatch_gap, sleep_arg, slept, fetch_dur, cycle_len>>

\* a loop body that fetches without rolling old_state
PrintElapsed_no_roll ==
    /\ pc = "print"
    /\ pc' = "fetch"
    /\ UNCHANGED <<tr, last_dispatched, stale,
                   max_updates_per_second, upc, state, old_state, start_age, elapsed,
                   fetch_result, json, raw_in_range, sent, iter, dispatches,
                   since_dispatch, dispatch_gap, sleep_arg, slept, fetch_dur, cycle_len>>

\* line 141: println!("{:?}", start.elapsed())
PrintElapsed ==
    /\ pc = "print"
    /\ pc' = "roll"
    /\ UNCHANGED <<tr, last_dispatched, stale,
                   max_updates_per_second, upc, state, old_state, start_age, elapsed,
                   fetch_result, json, raw_in_range, sent, iter, dispatches,
                   since_dispatch, dispatch_gap, sleep_arg, slept, fetch_dur, cycle_len>>

\* a loop body that forgets to roll old_state
Roll_no_assign ==
    /\ pc = "roll"
    /\ old_state' = old_state
    /\ pc' = "fetch"
    /\ UNCHANGED <<tr, last_dispatched, stale,
                   max_updates_per_second, upc, state, start_age, elapsed,
                   fetch_result, json, raw_in_range, sent, iter, dispatches,
                   since_dispatch, dispatch_gap, sleep_arg, slept, fetch_dur, cycle_len>>

\* old_state rolled only when the sends of the latest dispatch went through
Roll_keep_on_failure ==
    /\ pc = "roll"
    /\ old_state' = (IF stale THEN old_state ELSE state)
    /\ pc' = "fetch"
    /\ UNCHANGED <<tr, last_dispatched, stale,
                   max_updates_per_second, upc, state, start_age, elapsed,
                   fetch_result, json, raw_in_range, sent, iter, dispatches,
                   since_dispatch, dispatch_gap, sleep_arg, slept, fetch_dur, cycle_len>>

\* line 143: old_state = state
Roll ==
    /\ pc = "roll"
    /\ old_state' = state
    /\ pc' = "fetch"
    /\ UNCHANGED <<tr, last_dispatched, stale,
                   max_updates_per_second, upc, state, start_age, elapsed,
                   fetch_result, json, raw_in_range, sent, iter, dispatches,
                   since_dispatch, dispatch_gap, sleep_arg, slept, fetch_dur, cycle_len>>

\* a loop that waits between the fetch and the comparison
Fetch_then_wait == pc = "fetch" /\ GetBulbState("wait")

\* line 144: state = get_bulb_state(&config)
Fetch == pc = "fetch" /\ GetBulbState("start")

Next ==
    \/ InitFetch
    \/ InitClone
    \/ InitUpdate
    \/ SendOn
    \/ SendColor
    \/ SendBrightness
    \/ UpdateReturn
    \/ Start
    \/ Compare
    \/ Elapsed
    \/ Sleep
    \/ SkipSleep
    \/ PrintElapsed
    \/ Roll
    \/ Fetch

Spec == Init /\ [][Next]_vars

TypeOK ==
    /\ pc \in {"init_fetch", "init_clone", "init_update", "start", "compare", "update",
               "elapsed", "wait", "print", "roll", "fetch", "panicked"}
    /\ upc \in {"idle", "on", "Color", "brightness", "println"}
    /\ Len(sent) <= 3

\* ------------------------------------------------------------ properties
\* the three messages of one dispatch of s, in the order update_vrchat sends them
Messages(s) ==
    << <<"/avatar/parameters/on", s.on>>,
       <<"/avatar/parameters/Color", s.hue>>,
       <<"/avatar/parameters/brightness", s.brightness>> >>

\* address and value of each send attempted, whatever its outcome
Payload(log) == [i \in 1..Len(log) |-> <<log[i].addr, log[i].val>>]

Differs(a, b) == a.on # b.on \/ a.hue # b.hue \/ a.brightness # b.brightness

FetchFailures == {"send_err", "text_err", "malformed"}

InUnit(x) == FLe(Zero, x) /\ FLe(x, One)

\* C1: when an iteration has taken its dispatch decision, it has sent all three
\* fields of the current state if state differs from old_state in on, hue or
\* brightness, and it has sent nothing if the two are equal.
C1_DispatchIffChanged ==
    pc = "elapsed" =>
        IF Differs(state, old_state)
        THEN Payload(sent) = Messages(state)
        ELSE sent = <<>>

C1_Witness ==
    /\ pc = "elapsed"
    /\ state.hue # old_state.hue
    /\ state.on = old_state.on
    /\ state.brightness = old_state.brightness
    /\ Payload(sent) = Messages(state)

\* C2: no dispatch happens before the first fetch has succeeded; when the loop is
\* entered exactly one dispatch, of the fetched state, has happened and old_state
\* equals state; the first iteration makes no further dispatch.
C2_InitialDispatchOnce ==
    /\ (pc \in {"init_fetch", "init_clone"} \/ (pc = "init_update" /\ upc = "idle"))
            => dispatches = 0
    /\ (pc = "start" /\ iter = 0)
            => (dispatches = 1 /\ Payload(sent) = Messages(state) /\ old_state = state)
    /\ iter = 1 => dispatches = 1

C2_Witness ==
    /\ pc = "fetch"
    /\ iter = 1
    /\ dispatches = 1
    /\ state.on /\ state.hue # Zero /\ state.brightness # Zero

\* C3: a fetch that fails leaves the process terminated, and a terminated process
\* takes no further step.
C3_FetchFailureFatal ==
    /\ fetch_result \in FetchFailures => pc = "panicked"
    /\ pc = "panicked" => ~ENABLED Next

C3_Witness ==
    /\ pc = "panicked"
    /\ fetch_result = "malformed"
    /\ iter = 2

\* C4: inside update_vrchat the sends are attempted in the order on, Color,
\* brightness whatever the outcome of the earlier ones, the call returns, and the
\* process is terminated by nothing but a failed fetch.
C4_SendsBestEffort ==
    /\ upc = "on" => Len(sent) = 0 /\ ENABLED SendOn
    /\ upc = "Color" => Payload(sent) = SubSeq(Messages(state), 1, 1) /\ ENABLED SendColor
    /\ upc = "brightness"
            => Payload(sent) = SubSeq(Messages(state), 1, 2) /\ ENABLED SendBrightness
    /\ upc = "println" => Payload(sent) = Messages(state) /\ ENABLED UpdateReturn
    /\ pc = "panicked" => fetch_result \in FetchFailures

C4_Witness ==
    /\ pc = "elapsed"
    /\ iter >= 1
    /\ Len(sent) = 3
    /\ \A i \in 1..3 : ~sent[i].ok

\* the successions of positions of one loop iteration
LoopOrder ==
    {<<"start", "compare">>, <<"compare", "update">>, <<"compare", "elapsed">>,
     <<"update", "elapsed">>, <<"elapsed", "wait">>, <<"wait", "print">>,
     <<"print", "roll">>, <<"roll", "fetch">>, <<"fetch", "start">>,
     <<"fetch", "panicked">>}

LoopPositions == {"start", "compare", "update", "elapsed", "wait", "print", "roll", "fetch"}

\* C5: inside the loop the positions follow each other as cycle-start, decision
\* (and dispatch), elapsed, sleep, roll, fetch, cycle-start; state changes only
\* in the fetch, old_state only in the roll (to the value of state), time is
\* slept only at the sleep step, and a new cycle-start follows only a fetch.
C5_FixedOrder ==
    [][ /\ (pc \in LoopPositions /\ pc' # pc) => <<pc, pc'>> \in LoopOrder
        /\ state' # state => pc \in {"init_fetch", "fetch"}
        /\ old_state' # old_state => (pc \in {"init_clone", "roll"} /\ old_state' = state)
        /\ slept' > 0 => (slept' = slept \/ pc = "wait")
      ]_vars

C5_Witness ==
    /\ pc = "start"
    /\ iter = 2
    /\ dispatches = 2
    /\ slept > 0
    /\ fetch_result = "json"
    /\ Differs(state, old_state)

\* C6: when update_vrchat is entered inside the loop, at least one period
\* max_loop_speed has passed since it was entered the time before.
C6_RateLimited ==
    (pc = "update" /\ upc = "on") => dispatch_gap >= max_loop_speed

C6_Witness ==
    /\ pc = "update" /\ upc = "on"
    /\ iter = 2
    /\ dispatches = 2
    /\ dispatch_gap = max_loop_speed

\* C7: elapsed is the time since the cycle-start; after the sleep decision, if
\* elapsed was below the period the loop has asked thread::sleep for exactly
\* max_loop_speed - elapsed (and slept at least that), and otherwise it has
\* not slept and no time has passed.
C7_SleepRemaining ==
    /\ pc = "wait" => elapsed = start_age
    /\ pc = "print" =>
        IF elapsed < max_loop_speed
        THEN /\ sleep_arg = max_loop_speed - elapsed
             /\ slept >= sleep_arg
             /\ start_age = elapsed + slept
        ELSE /\ sleep_arg = -1
             /\ slept = 0
             /\ start_age = elapsed

C7_Witness ==
    /\ pc = "print"
    /\ 0 < elapsed /\ elapsed < max_loop_speed
    /\ sleep_arg = max_loop_speed - elapsed

\* C8 as stated: when dispatch and fetch of an iteration together took less than
\* the period (and thread::sleep slept exactly what it was asked), the next
\* cycle-start is exactly one period after this cycle-start.
C8_FixedRate ==
    (/\ pc = "compare" /\ iter = 2
     /\ elapsed + fetch_dur < max_loop_speed
     /\ slept = sleep_arg)
        => cycle_len = max_loop_speed

\* C8 amended: when comparison and dispatch of an iteration took less than the
\* period, the next cycle-start comes one period, plus what thread::sleep
\* overslept, plus the whole duration of the fetch after this cycle-start.
C8_PeriodPlusFetch ==
    (pc = "compare" /\ iter = 2 /\ elapsed < max_loop_speed)
        => cycle_len = max_loop_speed + (slept - sleep_arg) + fetch_dur

C8_Witness ==
    /\ pc = "compare" /\ iter = 2
    /\ elapsed + fetch_dur < max_loop_speed
    /\ fetch_dur > 0
    /\ slept = sleep_arg
    /\ cycle_len = max_loop_speed + fetch_dur

UnitState(s) == InUnit(s.hue) /\ InUnit(s.brightness)

SentUnit ==
    \A i \in 1..Len(sent) :
        sent[i].addr # "/avatar/parameters/on" => InUnit(sent[i].val)

OutOfRange(v, lo, hi) == v.kind = "number" /\ (v.num < lo \/ v.num > hi)

\* C9 as stated: state, old_state and every hue or brightness sent are within
\* [0.0, 1.0].
C9_AlwaysUnit == UnitState(state) /\ UnitState(old_state) /\ SentUnit

\* C9 amended: state, old_state and every hue or brightness sent are within
\* [0.0, 1.0] as long as every raw number reported was within its native range;
\* a raw number outside its native range gives a field outside [0.0, 1.0].
C9_UnitWhenRawInRange ==
    /\ raw_in_range => (UnitState(state) /\ UnitState(old_state) /\ SentUnit)
    /\ (fetch_result = "json" /\ json # NoJson) =>
        /\ OutOfRange(json.hs_color0, 0, 360) => ~InUnit(state.hue)
        /\ OutOfRange(json.brightness, 0, 255) => ~InUnit(state.brightness)

C9_Witness ==
    /\ raw_in_range
    /\ pc = "elapsed"
    /\ Len(sent) = 3
    /\ state.hue = One /\ state.brightness = One
    /\ old_state.hue = Norm(1, 2)

PresentNonNumber(v) == v.kind \in NonNumberKinds \ {"absent"}

\* C11: a body that parses and in which hue or brightness is present but not a
\* number leaves the process terminated.
C11_NonNumericFatal ==
    (/\ fetch_result = "json" /\ json # NoJson
     /\ (PresentNonNumber(json.hs_color0) \/ PresentNonNumber(json.brightness)))
        => pc = "panicked"

\* ------------------------------------------------------------ the adapter alone
\* get_home_assistant_state applied once to a response drawn from a wider set
AdapterHues == {-90, 0, 180, 360, 720}
AdapterBrightnesses == {-51, 0, 127, 255, 510}
AdapterResponses ==
    {[kind |-> k, json |-> NoJson] : k \in {"send_err", "text_err", "malformed"}}
        \cup {[kind |-> "json", json |-> j] :
                j \in [state : StatusValues \cup {"ON"},
                       hs_color0 : JValues(NonNumberKinds, AdapterHues),
                       brightness : JValues(NonNumberKinds, AdapterBrightnesses)]}

AdapterInit ==
    /\ \E resp \in AdapterResponses : fetch_result = resp.kind /\ json = resp.json
    /\ pc = "adapter_call"
    /\ max_updates_per_second = 1
    /\ upc = "idle"
    /\ state = Unbound
    /\ old_state = Unbound
    /\ start_age = 0
    /\ elapsed = 0
    /\ raw_in_range = TRUE
    /\ sent = <<>>
    /\ iter = 0
    /\ dispatches = 0
    /\ since_dispatch = ClockCap
    /\ dispatch_gap = ClockCap
    /\ sleep_arg = -1
    /\ slept = 0
    /\ fetch_dur = 0
    /\ cycle_len = 0
    /\ last_dispatched = Unbound
    /\ stale = FALSE
    /\ tr = NoCall

\* lines 55-90: the call returns Ok(BulbState), returns Err, or panics
AdapterApply ==
    /\ pc = "adapter_call"
    /\ LET res == get_home_assistant_state([kind |-> fetch_result, json |-> json])
       IN  /\ state' = res.val
           /\ pc' = (IF res.tag = "Ok" THEN "adapter_Ok"
                     ELSE IF res.tag = "Err" THEN "adapter_Err" ELSE "adapter_panic")
    /\ UNCHANGED <<tr, last_dispatched, stale,
                   max_updates_per_second, upc, old_state, start_age, elapsed,
                   fetch_result, json, raw_in_range, sent, iter, dispatches,
                   since_dispatch, dispatch_gap, sleep_arg, slept, fetch_dur, cycle_len>>

AdapterNext == AdapterApply

AdapterSpec == AdapterInit /\ [][AdapterNext]_vars

\* the raw value the adapter takes for a field
RawOf(v) == IF v.kind = "number" THEN v.num ELSE 0

IsNumber(v, n) == v.kind = "number" /\ v.num = n

\* C12: for every body that parses the adapter returns Ok with on true exactly
\* when the status is the string "on", hue = raw hue / 360 and brightness = raw
\* brightness / 255; raw 180 and 127 give 1/2 and 127/255, and raw 0, 0 with
\* status "off" give BulbState{on: false, hue: 0.0, brightness: 0.0}.
C12_AdapterValues ==
    /\ fetch_result = "json" => pc \in {"adapter_call", "adapter_Ok"}
    /\ pc = "adapter_Ok" =>
        /\ fetch_result = "json"
        /\ state.on = (json.state = "on")
        /\ state.hue = Norm(RawOf(json.hs_color0), 360)
        /\ state.brightness = Norm(RawOf(json.brightness), 255)
        /\ (IsNumber(json.hs_color0, 180) /\ IsNumber(json.brightness, 127))
                => (state.hue = Norm(1, 2) /\ state.brightness = Norm(127, 255))
        /\ (IsNumber(json.hs_color0, 0) /\ IsNumber(json.brightness, 0)
                /\ json.state = "off")
                => state = BulbState(FALSE, Zero, Zero)

C12_Witness ==
    /\ pc = "adapter_Ok"
    /\ json.state = "ON"
    /\ IsNumber(json.hs_color0, 180) /\ IsNumber(json.brightness, 127)
    /\ state = BulbState(FALSE, Norm(1, 2), Norm(127, 255))

\* ------------------------------------------------------------ translate alone
\* translate applied once to integer arguments, then applied back with the
\* source and target intervals swapped
TranslateArgs == -1..MaxArg

TranslateInit ==
    /\ \E v, a, b, c, d \in TranslateArgs :
        tr = [value |-> v, prev_start |-> a, prev_end |-> b, new_start |-> c,
              new_end |-> d, step |-> "args", result |-> Zero, back |-> Zero]
    /\ pc = "translate"
    /\ max_updates_per_second = 1
    /\ upc = "idle"
    /\ state = Unbound
    /\ old_state = Unbound
    /\ start_age = 0
    /\ elapsed = 0
    /\ fetch_result = "none"
    /\ json = NoJson
    /\ raw_in_range = TRUE
    /\ sent = <<>>
    /\ iter = 0
    /\ dispatches = 0
    /\ since_dispatch = ClockCap
    /\ dispatch_gap = ClockCap
    /\ sleep_arg = -1
    /\ slept = 0
    /\ fetch_dur = 0
    /\ cycle_len = 0
    /\ last_dispatched = Unbound
    /\ stale = FALSE

LoopUnchanged ==
    UNCHANGED <<max_updates_per_second, pc, upc, state, old_state, start_age, elapsed,
                fetch_result, json, raw_in_range, sent, iter, dispatches,
                since_dispatch, dispatch_gap, sleep_arg, slept, fetch_dur, cycle_len,
                last_dispatched, stale>>

\* translate(value, prev_start, prev_end, new_start, new_end)
TranslateApply ==
    /\ tr.step = "args"
    /\ tr' = [tr EXCEPT !.step = "applied",
                        !.result = translate(FromInt(tr.value), FromInt(tr.prev_start),
                                             FromInt(tr.prev_end), FromInt(tr.new_start),
                                             FromInt(tr.new_end))]
    /\ LoopUnchanged

\* translate(result, new_start, new_end, prev_start, prev_end)
TranslateBack ==
    /\ tr.step = "applied"
    /\ tr' = [tr EXCEPT !.step = "inverted",
                        !.back = translate(tr.result, FromInt(tr.new_start),
                                           FromInt(tr.new_end), FromInt(tr.prev_start),
                                           FromInt(tr.prev_end))]
    /\ LoopUnchanged

TranslateNext == TranslateApply \/ TranslateBack

TranslateSpec == TranslateInit /\ [][TranslateNext]_vars

\* translate of the call under study at another value
TranslateAt(v) ==
    translate(FromInt(v), FromInt(tr.prev_start), FromInt(tr.prev_end),
              FromInt(tr.new_start), FromInt(tr.new_end))

Max(a, b) == IF a > b THEN a ELSE b

Between(x, p, q) == FLe(FromInt(Min(p, q)), x) /\ FLe(x, FromInt(Max(p, q)))

\* C13: with a # b the result is c + ((value - a) / (b - a)) * (d - c); it is
\* affine in value (equal steps of value give equal steps of the result), a is
\* mapped to c and b to d, and with c # d a value outside the interval of a and
\* b gives a result outside the interval of c and d.
C13_TranslateAffine ==
    (tr.step \in {"applied", "inverted"} /\ tr.prev_start # tr.prev_end) =>
        LET v == tr.value
            a == tr.prev_start
            b == tr.prev_end
            c == tr.new_start
            d == tr.new_end
        IN  /\ tr.result = Norm(c * (b - a) + (v - a) * (d - c), b - a)
            /\ FSub(TranslateAt(v + 1), tr.result) = FSub(tr.result, TranslateAt(v - 1))
            /\ TranslateAt(a) = FromInt(c)
            /\ TranslateAt(b) = FromInt(d)
            /\ (c # d /\ ~Between(FromInt(v), a, b)) => ~Between(tr.result, c, d)

C13_Witness ==
    /\ tr.step = "applied"
    /\ tr.value = 2 /\ tr.prev_start = 0 /\ tr.prev_end = 1
    /\ tr.new_start = 0 /\ tr.new_end = 2
    /\ tr.result = FromInt(4)

\* C14 as stated: with a # b, translating the result back with the intervals
\* swapped gives value.
C14_RoundTrip ==
    (tr.step = "inverted" /\ tr.prev_start # tr.prev_end)
        => FEq(tr.back, FromInt(tr.value))

\* C14 amended: with a # b and c # d, translating the result back with the
\* intervals swapped gives value; with c = d the way back divides 0.0 by 0.0
\* and gives NaN.
C14_RoundTripDistinct ==
    (tr.step = "inverted" /\ tr.prev_start # tr.prev_end) =>
        IF tr.new_start # tr.new_end
        THEN FEq(tr.back, FromInt(tr.value))
        ELSE IsNaN(tr.back)

C14_Witness ==
    /\ tr.step = "inverted"
    /\ tr.value = -1 /\ tr.prev_start = 0 /\ tr.prev_end = 2
    /\ tr.new_start = 2 /\ tr.new_end = 1
    /\ tr.result = Norm(5, 2)
    /\ tr.back = FromInt(-1)

\* C16: every update_vrchat call carries the current state; from the dispatch
\* decision to the roll (so at the sleep step) the state dispatched last is the
\* state fetched last, and from the roll to the next decision it is the state
\* fetched before, so a fetched state is dispatched exactly when it differs
\* from the one fetched before it.
C16_LastDispatchedIsCurrent ==
    /\ upc # "idle" => last_dispatched = state
    /\ pc \in {"elapsed", "wait", "print", "roll"} => last_dispatched = state
    /\ pc \in {"fetch", "start", "compare"} => last_dispatched = old_state
    /\ pc = "elapsed" => (Differs(state, old_state) <=> Len(sent) = 3)

C16_Witness ==
    /\ pc = "wait"
    /\ iter = 2
    /\ dispatches = 2
    /\ Differs(state, old_state)
    /\ last_dispatched = state
    /\ state = BulbState(FALSE, Zero, Zero)

\* C17: a successful fetch inside the loop is followed by the cycle-start and the
\* comparison with no time passing in between, and a changed state enters
\* update_vrchat at once; the loop leaves update_vrchat only for the elapsed
\* step, so the dispatch comes before this iteration's sleep and fetch.
C17_NoSleepBeforeDecision ==
    [][ /\ (pc = "fetch" /\ pc' # "panicked") => pc' = "start"
        /\ pc = "start" =>
            (pc' = "compare" /\ state' = state /\ since_dispatch' = since_dispatch)
        /\ pc = "compare" =>
            /\ start_age' = start_age
            /\ IF Differs(state, old_state)
               THEN pc' = "update" /\ upc' = "on" /\ last_dispatched' = state
               ELSE pc' = "elapsed"
        /\ pc = "update" => pc' \in {"update", "elapsed"}
      ]_vars

C17_Witness ==
    /\ pc = "update" /\ upc = "println"
    /\ iter = 2
    /\ Differs(state, old_state)
    /\ last_dispatched = state
    /\ sleep_arg = -1 /\ slept = 0

\* C18: old_state is rolled to state whatever the sends did, and a state equal to
\* the one dispatched last is not dispatched again even when a send of that
\* dispatch failed.
C18_NoRetry ==
    [][ /\ pc = "roll" => old_state' = state
        /\ (pc = "compare" /\ state = last_dispatched)
                => (pc' = "elapsed" /\ sent' = <<>> /\ stale' = stale)
      ]_vars

C18_Witness ==
    /\ pc = "elapsed"
    /\ iter = 2
    /\ dispatches = 2
    /\ stale
    /\ sent = <<>>
    /\ state = last_dispatched

\* ------------------------------------------------------------ the loop, run on
\* the backend answers one failure, "on" and "off": the main loop with the
\* fetches of lines 126 and 144 restricted to three answers, and the process
\* scheduled (every call of the loop returns, so a step that can be taken is
\* eventually taken)
LiveResponses ==
    {[kind |-> "send_err", json |-> NoJson]}
        \cup {[kind |-> "json",
               json |-> [state |-> st,
                         hs_color0 |-> [kind |-> "number", num |-> 180],
                         brightness |-> [kind |-> "number", num |-> 255]]] :
               st \in {"on", "off"}}

LiveInitFetch == pc = "init_fetch" /\ GetBulbStateFrom(LiveResponses, "init_clone")

LiveFetch == pc = "fetch" /\ GetBulbStateFrom(LiveResponses, "start")

LiveNext ==
    \/ LiveInitFetch
    \/ InitClone
    \/ InitUpdate
    \/ SendOn
    \/ SendColor
    \/ SendBrightness
    \/ UpdateReturn
    \/ Start
    \/ Compare
    \/ Elapsed
    \/ Sleep
    \/ SkipSleep
    \/ PrintElapsed
    \/ Roll
    \/ LiveFetch

LiveSpec == Init /\ [][LiveNext]_vars /\ WF_vars(LiveNext)

\* C15: the loop fetches again and again, whatever is fetched and whatever the
\* sends do, unless a fetch fails and the process panics on that failure.
C15_FetchesForever ==
    \/ []<>(pc = "fetch")
    \/ <>(pc = "panicked" /\ fetch_result \in FetchFailures)

C15_Witness ==
    /\ pc = "fetch"
    /\ iter = 2
    /\ dispatches = 2
    /\ stale
    /\ fetch_result = "json"

====
